---- MODULE Spec2Model ----
(***************************************************************************)
(* Model of the sales dashboard's tabular pipeline: the DataProcessor of    *)
(* src/src/data_processor.py (filters, cleaning, reset, metrics, aggregate  *)
(* tables, trend) as a state machine over a processor object, and the      *)
(* generator of src/src/data_generator.py with the clock and the global     *)
(* random state it reads.                                                   *)
(*                                                                          *)
(* Representation.                                                          *)
(*   - A DataFrame is a sequence of rows; a row is a record of the columns  *)
(*     the processor reads.  The columns no method reads (Produto,          *)
(*     Valor_Unitario, Valor_Total, Cliente_ID and the derived calendar     *)
(*     columns) only take part in drop_duplicates' whole-row comparison;    *)
(*     they are folded into ID: rows with the same ID carry the same values *)
(*     there.                                                               *)
(*   - Money is an integer number of thousandths (1.000 = 1000), so that    *)
(*     round(2) is a real rounding to a multiple of 10.                     *)
(*   - A timestamp is [dia, tod]: a day number and the time of day in ticks *)
(*     of 1/SubMs millisecond.  NaT is the missing timestamp, NaN the       *)
(*     missing number, NaNStr the missing string.                           *)
(***************************************************************************)
EXTENDS Integers, Sequences, FiniteSets, TLC

VARIABLES
    entrada,      \* the DataFrame handed to DataProcessor.__init__
    df,           \* self.df: the current view
    df_original,  \* self.df_original
    ret,          \* what the last call returned: [op |-> method, val |-> value]
    fresco,       \* history: the view of a freshly constructed processor after the
                  \* calls made since the last reset_filtros (or since construction)
    fase,         \* history: "novo", "filtrado", "reiniciado", "refiltrado"
    cadeia,       \* history of one filter chain: [base, fs, feitos]
    agora,        \* the clock: what datetime.now() returns
    rng,          \* the global random state of numpy.random and of random
    arquivo       \* whether data/vendas.csv exists

vars == <<entrada, df, df_original, ret, fresco, fase, cadeia, agora, rng, arquivo>>

\* What the generator reads and writes; the processor touches none of it.
gen == <<agora, rng, arquivo>>

(***************************************************************************)
(* Bounds                                                                   *)
(***************************************************************************)
\* Longest DataFrame a processor is constructed with.
MaxLen == 2
\* Ticks per millisecond: timestamps are finer than the filter's millisecond.
SubMs == 2

(***************************************************************************)
(* Time                                                                     *)
(***************************************************************************)
MsPorDia == 86400000
TicksPorDia == MsPorDia * SubMs
NaT == [dia |-> 0 - 1, tod |-> 0]
NaN == 0 - 1
NaNStr == "NaN"

IsNaT(t) == t.dia < 0

\* 23:59:59.000 and the last representable instant of a day, 12:00:00.
T235959 == ((23 * 3600 + 59 * 60 + 59) * 1000) * SubMs
UltimoTick == TicksPorDia - 1
MeioDia == (12 * 3600 * 1000) * SubMs

\* t1 <= t2 on timestamps; a comparison with NaT is False, as in pandas.
TsLe(t1, t2) ==
    /\ ~IsNaT(t1)
    /\ ~IsNaT(t2)
    /\ \/ t1.dia < t2.dia
       \/ (t1.dia = t2.dia /\ t1.tod <= t2.tod)

\* t + Timedelta(days=1) - Timedelta(milliseconds=1)
FimDoDia(t) ==
    IF t.tod >= SubMs
    THEN [dia |-> t.dia + 1, tod |-> t.tod - SubMs]
    ELSE [dia |-> t.dia, tod |-> t.tod + TicksPorDia - SubMs]

(***************************************************************************)
(* Rows                                                                     *)
(***************************************************************************)
Concluida == "Concluída"
Pendente == "Pendente"
Cancelada == "Cancelada"

Linha(id, data, status, categoria, regiao, cidade, valor, qtd, desc, metodo, vend) ==
    [ID |-> id, Data |-> data, Status |-> status, Categoria |-> categoria,
     Regiao |-> regiao, Cidade |-> cidade, Valor_Final |-> valor,
     Quantidade |-> qtd, Desconto |-> desc, Metodo_Pagamento |-> metodo,
     Vendedor |-> vend]

\* Sequences over S of length at most n.
SeqAte(S, n) == UNION {[1..k -> S] : k \in 0..n}

(***************************************************************************)
(* Arguments                                                                *)
(***************************************************************************)
\* A date bound as the caller passes it: None, '' (an empty string), a date,
\* a datetime with a time of day, or a string pd.to_datetime cannot parse.
SemLimite == [tipo |-> "None", dia |-> 0, tod |-> 0]
LimiteVazio == [tipo |-> "vazio", dia |-> 0, tod |-> 0]
LimiteDate(d) == [tipo |-> "date", dia |-> d, tod |-> 0]
LimiteDatetime(d, t) == [tipo |-> "datetime", dia |-> d, tod |-> t]
LimiteInvalido == [tipo |-> "invalido", dia |-> 0, tod |-> 0]

\* Python truthiness of a bound: None and '' are falsy.
LimiteTruthy(b) == b.tipo \notin {"None", "vazio"}

\* pd.to_datetime of a parseable bound: a date becomes its midnight.
ToDatetime(b) == [dia |-> b.dia, tod |-> b.tod]

\* A status/category/region argument: None, a list (its values), or one string.
ArgNone == [tipo |-> "None", vals |-> {}]
ArgList(S) == [tipo |-> "list", vals |-> S]
ArgStr(s) == [tipo |-> "str", vals |-> IF s = "" THEN {} ELSE {s}]

\* Python truthiness: None, [] and '' are falsy.
ArgTruthy(a) == a.tipo # "None" /\ a.vals # {}

\* Series.unique().tolist(): the values of a column, NaN included.
Unique(v, col) == {v[i][col] : i \in 1..Len(v)}

(***************************************************************************)
(* The filters, as functions of the view                                    *)
(***************************************************************************)
\* data_processor.py:46-49
PeriodoInicio(v, b) ==
    IF ~LimiteTruthy(b) THEN [df |-> v, erro |-> FALSE]
    ELSE IF b.tipo = "invalido" THEN [df |-> v, erro |-> TRUE]
    ELSE [df |-> SelectSeq(v, LAMBDA r : TsLe(ToDatetime(b), r.Data)),
          erro |-> FALSE]

\* PeriodoFim taking a bound it cannot parse as no bound.
PeriodoFimTolerante(v, b) ==
    IF ~LimiteTruthy(b) \/ b.tipo = "invalido" THEN [df |-> v, erro |-> FALSE]
    ELSE [df |-> SelectSeq(v, LAMBDA r : TsLe(r.Data, FimDoDia(ToDatetime(b)))),
          erro |-> FALSE]

\* data_processor.py:51-56
PeriodoFim(v, b) ==
    IF ~LimiteTruthy(b) THEN [df |-> v, erro |-> FALSE]
    ELSE IF b.tipo = "invalido" THEN [df |-> v, erro |-> TRUE]
    ELSE [df |-> SelectSeq(v, LAMBDA r : TsLe(r.Data, FimDoDia(ToDatetime(b)))),
          erro |-> FALSE]

\* The view filtrar_por_periodo leaves in self.df, and whether it raised: the
\* start bound is applied before the end bound is parsed.
FiltroPeriodo(v, inicio, fim) ==
    LET a == PeriodoInicio(v, inicio)
    IN  IF a.erro THEN a ELSE PeriodoFim(a.df, fim)

\* FiltroColuna without the truthiness test: an empty selection excludes all.
FiltroColunaSemGuarda(v, col, a) ==
    IF a.tipo = "None" THEN v
    ELSE IF a.tipo = "list"
         THEN SelectSeq(v, LAMBDA r : r[col] \in a.vals)
         ELSE SelectSeq(v, LAMBDA r : r[col] \in a.vals /\ r[col] # NaNStr)

\* Series.isin(list) matches NaN with NaN; Series == scalar never matches NaN.
FiltroColuna(v, col, a) ==
    IF ~ArgTruthy(a) THEN v
    ELSE IF a.tipo = "list"
         THEN SelectSeq(v, LAMBDA r : r[col] \in a.vals)
         ELSE SelectSeq(v, LAMBDA r : r[col] \in a.vals /\ r[col] # NaNStr)

FiltroStatus(v, status) == FiltroColuna(v, "Status", status)
FiltroCategoria(v, categorias) == FiltroColuna(v, "Categoria", categorias)
FiltroRegiao(v, regioes) == FiltroColuna(v, "Regiao", regioes)

\* DataFrame.drop_duplicates(): the first of equal rows is kept.
DropDuplicates(v) ==
    LET Keep == {i \in 1..Len(v) : \A j \in 1..(i - 1) : v[j] # v[i]}
        F[i \in 0..Len(v)] ==
            IF i = 0 THEN <<>>
            ELSE IF i \in Keep THEN Append(F[i - 1], v[i]) ELSE F[i - 1]
    IN  F[Len(v)]

\* DataFrame.dropna(subset=['Data', 'Valor_Final', 'Status'])
DropNa(v) ==
    SelectSeq(v, LAMBDA r : ~IsNaT(r.Data) /\ r.Valor_Final # NaN /\ r.Status # NaNStr)

Limpar(v) == DropNa(DropDuplicates(v))

(***************************************************************************)
(* DataProcessor: construction and the methods that return self             *)
(***************************************************************************)
Self(nome) == [op |-> nome, val |-> "self"]
Raised(nome) == [op |-> nome, val |-> "ValueError"]

\* __init__: both attributes are copies of the argument.
Construir(d) ==
    /\ entrada = d
    /\ df = d
    /\ df_original = d
    /\ ret = [op |-> "__init__", val |-> "self"]

limpar_dados ==
    /\ df' = Limpar(df)
    /\ ret' = Self("limpar_dados")
    /\ UNCHANGED <<entrada, df_original>>

filtrar_por_periodo(data_inicio, data_fim) ==
    LET r == FiltroPeriodo(df, data_inicio, data_fim)
    IN  /\ df' = r.df
        /\ ret' = IF r.erro THEN Raised("filtrar_por_periodo")
                  ELSE Self("filtrar_por_periodo")
        /\ UNCHANGED <<entrada, df_original>>

\* filtrar_por_status that narrows the original as well.
filtrar_por_status_no_original(status) ==
    /\ df' = FiltroStatus(df, status)
    /\ df_original' = FiltroStatus(df, status)
    /\ ret' = Self("filtrar_por_status")
    /\ UNCHANGED entrada

filtrar_por_status(status) ==
    /\ df' = FiltroStatus(df, status)
    /\ ret' = Self("filtrar_por_status")
    /\ UNCHANGED <<entrada, df_original>>

\* filtrar_por_categoria that filters the original instead of the current view.
filtrar_por_categoria_do_original(categorias) ==
    /\ df' = FiltroCategoria(df_original, categorias)
    /\ ret' = Self("filtrar_por_categoria")
    /\ UNCHANGED <<entrada, df_original>>

filtrar_por_categoria(categorias) ==
    /\ df' = FiltroCategoria(df, categorias)
    /\ ret' = Self("filtrar_por_categoria")
    /\ UNCHANGED <<entrada, df_original>>

\* filtrar_por_regiao that filters the original instead of the current view.
filtrar_por_regiao_do_original(regioes) ==
    /\ df' = FiltroRegiao(df_original, regioes)
    /\ ret' = Self("filtrar_por_regiao")
    /\ UNCHANGED <<entrada, df_original>>

filtrar_por_regiao(regioes) ==
    /\ df' = FiltroRegiao(df, regioes)
    /\ ret' = Self("filtrar_por_regiao")
    /\ UNCHANGED <<entrada, df_original>>

\* reset_filtros that copies the current view instead of the original.
reset_filtros_da_vista ==
    /\ df' = df
    /\ ret' = Self("reset_filtros")
    /\ UNCHANGED <<entrada, df_original>>

reset_filtros ==
    /\ df' = df_original
    /\ ret' = Self("reset_filtros")
    /\ UNCHANGED <<entrada, df_original>>

get_dataframe ==
    /\ ret' = [op |-> "get_dataframe", val |-> df]
    /\ UNCHANGED <<entrada, df, df_original>>

(***************************************************************************)
(* Series arithmetic (NaN is skipped, as pandas does by default)            *)
(***************************************************************************)
\* A quotient num/den in lowest terms; den = 0 is NaN (the mean of nothing).
RECURSIVE GCD(_, _)
GCD(a, b) == IF b = 0 THEN a ELSE GCD(b, a % b)

Frac(n, d) ==
    IF d = 0 THEN [num |-> 0, den |-> 0]
    ELSE LET g == GCD(IF n < 0 THEN 0 - n ELSE n, d)
         IN  [num |-> n \div g, den |-> d \div g]

Zero == [num |-> 0, den |-> 1]
FracNaN == [num |-> 0, den |-> 0]

Coluna(v, col) == [i \in 1..Len(v) |-> v[i][col]]
Validos(s) == SelectSeq(s, LAMBDA x : x # NaN)

\* Series.sum(): 0 for an empty or all-NaN series.
Sum(s) ==
    LET F[i \in 0..Len(s)] ==
            IF i = 0 THEN 0
            ELSE F[i - 1] + (IF s[i] = NaN THEN 0 ELSE s[i])
    IN  F[Len(s)]

\* Series.count(): the values that are not NaN.
Count(s) == Len(Validos(s))

\* Series.mean()
Mean(s) == Frac(Sum(s), Count(s))

\* The k-th smallest value of a series without NaN.
Kth(s, k) ==
    CHOOSE x \in {s[i] : i \in 1..Len(s)} :
        /\ Cardinality({i \in 1..Len(s) : s[i] < x}) < k
        /\ Cardinality({i \in 1..Len(s) : s[i] <= x}) >= k

\* Series.median(): the middle value, or the mean of the two middle values.
Median(s) ==
    LET w == Validos(s)
        n == Len(w)
    IN  IF n = 0 THEN FracNaN
        ELSE IF n % 2 = 1 THEN Frac(Kth(w, (n + 1) \div 2), 1)
        ELSE Frac(Kth(w, n \div 2) + Kth(w, n \div 2 + 1), 2)

\* Series.max() / Series.min(): NaN for an empty or all-NaN series.
Max(s) ==
    LET w == Validos(s)
    IN  IF Len(w) = 0 THEN NaN ELSE Kth(w, Len(w))

Min(s) ==
    LET w == Validos(s)
    IN  IF Len(w) = 0 THEN NaN ELSE Kth(w, 1)

\* round(x, 2) of a non-negative amount in thousandths: to the nearest
\* hundredth, a tie going to the even hundredth.
Round2(x) ==
    IF x = NaN THEN NaN
    ELSE LET q == x \div 10
             r == x % 10
         IN  IF r > 5 \/ (r = 5 /\ q % 2 = 1) THEN (q + 1) * 10 ELSE q * 10

\* round(2) of a non-negative quotient of thousandths; NaN stays NaN.
Round2Frac(f) ==
    IF f.den = 0 THEN NaN
    ELSE LET d == f.den * 10
             q == f.num \div d
             r == f.num - q * d
         IN  IF 2 * r > d \/ (2 * r = d /\ q % 2 = 1) THEN (q + 1) * 10 ELSE q * 10

\* DataFrame.fillna(0) of one cell.
FillNa0(x) == IF x = NaN THEN 0 ELSE x

(***************************************************************************)
(* calcular_metricas_vendas                                                 *)
(***************************************************************************)
\* self.df[self.df['Status'] == 'Concluída']
Vendas(v) == SelectSeq(v, LAMBDA r : r.Status = Concluida)

ContarStatus(v, st) == Len(SelectSeq(v, LAMBDA r : r.Status = st))

MetricasVazias ==
    [total_vendas |-> 0, receita_total |-> 0, ticket_medio |-> Zero,
     total_produtos |-> 0, vendas_canceladas |-> 0, vendas_pendentes |-> 0,
     ticket_mediano |-> Zero, receita_maxima |-> 0, receita_minima |-> 0,
     desconto_medio |-> Zero]

\* CalcularMetricas without the early return for no completed sale.
CalcularMetricasSemRetorno(v) ==
    LET df_vendas == Vendas(v)
        valor == Coluna(df_vendas, "Valor_Final")
    IN  [total_vendas |-> Len(df_vendas),
         receita_total |-> Sum(valor),
         ticket_medio |-> Mean(valor),
         ticket_mediano |-> Median(valor),
         total_produtos |-> Sum(Coluna(df_vendas, "Quantidade")),
         vendas_canceladas |-> ContarStatus(v, Cancelada),
         vendas_pendentes |-> ContarStatus(v, Pendente),
         receita_maxima |-> Max(valor),
         receita_minima |-> Min(valor),
         desconto_medio |-> Mean(Coluna(df_vendas, "Desconto"))]

CalcularMetricas(v) ==
    LET df_vendas == Vendas(v)
        valor == Coluna(df_vendas, "Valor_Final")
    IN  IF Len(df_vendas) = 0 THEN MetricasVazias
        ELSE [total_vendas |-> Len(df_vendas),
              receita_total |-> Sum(valor),
              ticket_medio |-> Mean(valor),
              ticket_mediano |-> Median(valor),
              total_produtos |-> Sum(Coluna(df_vendas, "Quantidade")),
              vendas_canceladas |-> ContarStatus(v, Cancelada),
              vendas_pendentes |-> ContarStatus(v, Pendente),
              receita_maxima |-> Max(valor),
              receita_minima |-> Min(valor),
              desconto_medio |-> Mean(Coluna(df_vendas, "Desconto"))]

calcular_metricas_vendas ==
    /\ ret' = [op |-> "calcular_metricas_vendas", val |-> CalcularMetricas(df)]
    /\ UNCHANGED <<entrada, df, df_original>>

(***************************************************************************)
(* Aggregate tables                                                         *)
(***************************************************************************)
\* The keys of groupby(col): the values of the column; a missing key has no group.
Chaves(v, col) == Unique(v, col) \ {NaNStr}

Grupo(v, col, k) == SelectSeq(v, LAMBDA r : r[col] = k)

\* sort_values with ascending=True.
SortValuesAsc(rows) ==
    {p \in [1..Cardinality(rows) -> rows] :
        /\ \A i, j \in DOMAIN p : i # j => p[i] # p[j]
        /\ \A i, j \in DOMAIN p : i < j => p[i].Receita_Total <= p[j].Receita_Total}

\* sort_values('Receita_Total', ascending=False): the default sort is numpy's
\* quicksort, which is not stable, so rows of equal Receita_Total may come out in
\* any order: every ordering of the rows by non-increasing Receita_Total.
SortValuesDesc(rows) ==
    {p \in [1..Cardinality(rows) -> rows] :
        /\ \A i, j \in DOMAIN p : i # j => p[i] # p[j]
        /\ \A i, j \in DOMAIN p : i < j => p[i].Receita_Total >= p[j].Receita_Total}

\* HeadN keeping one row more than asked for.
HeadNMaisUm(t, n) ==
    LET m == IF n >= 0 THEN (IF n + 1 < Len(t) THEN n + 1 ELSE Len(t))
             ELSE (IF Len(t) + n > 0 THEN Len(t) + n ELSE 0)
    IN  SubSeq(t, 1, m)

\* DataFrame.head(n): the first n rows; all but the last -n rows when n < 0.
HeadN(t, n) ==
    LET m == IF n >= 0 THEN (IF n < Len(t) THEN n ELSE Len(t))
             ELSE (IF Len(t) + n > 0 THEN Len(t) + n ELSE 0)
    IN  SubSeq(t, 1, m)

\* round(n * 10^k / d) for n >= 0, d > 0, by long division; a tie goes to even.
RECURSIVE LongDiv(_, _, _, _)
LongDiv(q, r, d, k) ==
    IF k = 0 THEN [q |-> q, r |-> r]
    ELSE LongDiv(q * 10 + (r * 10) \div d, (r * 10) % d, d, k - 1)

DivRound(n, d, k) ==
    LET x == LongDiv(n \div d, n % d, d, k)
    IN  IF 2 * x.r > d \/ (2 * x.r = d /\ x.q % 2 = 1) THEN x.q + 1 ELSE x.q

\* One row of groupby(col).agg({'Valor_Final': ['sum', 'mean', 'count']}).round(2)
LinhaBase(g, k) ==
    LET valor == Coluna(g, "Valor_Final")
    IN  [chave |-> k,
         Receita_Total |-> Round2(Sum(valor)),
         Ticket_Medio |-> Round2Frac(Mean(valor)),
         Num_Vendas |-> Count(valor)]

LinhaCategoria(g, k) ==
    LET b == LinhaBase(g, k)
        desc == Coluna(g, "Desconto")
    IN  [chave |-> k, Receita_Total |-> b.Receita_Total,
         Ticket_Medio |-> b.Ticket_Medio, Num_Vendas |-> b.Num_Vendas,
         Total_Produtos |-> Sum(Coluna(g, "Quantidade")),
         Desconto_Medio |-> Round2Frac(Frac(1000 * Sum(desc), Count(desc)))]

LinhaRegiao(g, k) ==
    LET b == LinhaBase(g, k)
    IN  [chave |-> k, Receita_Total |-> b.Receita_Total,
         Ticket_Medio |-> b.Ticket_Medio, Num_Vendas |-> b.Num_Vendas,
         Num_Cidades |-> Cardinality(Chaves(g, "Cidade"))]

\* Percentual = (Receita_Total / Receita_Total.sum() * 100).round(2), NaN for 0/0.
LinhaMetodo(b, total) ==
    [chave |-> b.chave, Receita_Total |-> b.Receita_Total,
     Ticket_Medio |-> b.Ticket_Medio, Num_Transacoes |-> b.Num_Vendas,
     Percentual |-> IF total = 0 THEN NaN
                    ELSE 10 * DivRound(b.Receita_Total, total, 4)]

SomaReceita(rows) ==
    LET RECURSIVE S(_)
        S(R) == IF R = {} THEN 0
                ELSE LET x == CHOOSE y \in R : TRUE
                     IN  x.Receita_Total + S(R \ {x})
    IN  S(rows)

\* AnaliseCategoria without the restriction to completed sales.
AnaliseCategoriaDeTodas(v) ==
    IF Len(v) = 0 THEN {<<>>}
    ELSE SortValuesDesc({LinhaCategoria(Grupo(v, "Categoria", k), k) :
                            k \in Chaves(v, "Categoria")})

\* The tables each method may return (one, unless rows tie on Receita_Total).
AnaliseCategoria(v) ==
    LET df_vendas == Vendas(v)
    IN  IF Len(df_vendas) = 0 THEN {<<>>}
        ELSE SortValuesDesc({LinhaCategoria(Grupo(df_vendas, "Categoria", k), k) :
                                k \in Chaves(df_vendas, "Categoria")})

AnaliseRegiao(v) ==
    LET df_vendas == Vendas(v)
    IN  IF Len(df_vendas) = 0 THEN {<<>>}
        ELSE SortValuesDesc({LinhaRegiao(Grupo(df_vendas, "Regiao", k), k) :
                                k \in Chaves(df_vendas, "Regiao")})

AnaliseMetodoPagamento(v) ==
    LET df_vendas == Vendas(v)
        base == {LinhaBase(Grupo(df_vendas, "Metodo_Pagamento", k), k) :
                    k \in Chaves(df_vendas, "Metodo_Pagamento")}
    IN  IF Len(df_vendas) = 0 THEN {<<>>}
        ELSE SortValuesDesc({LinhaMetodo(b, SomaReceita(base)) : b \in base})

TopVendedores(v, n) ==
    LET df_vendas == Vendas(v)
    IN  IF Len(df_vendas) = 0 THEN {<<>>}
        ELSE {HeadN(t, n) :
                t \in SortValuesDesc({LinhaBase(Grupo(df_vendas, "Vendedor", k), k) :
                                        k \in Chaves(df_vendas, "Vendedor")})}

(***************************************************************************)
(* Calendar periods                                                         *)
(***************************************************************************)
\* Day 0 is 1 January of a common year; the days before the end of each month.
FimDosMeses == <<31, 59, 90, 120, 151, 181, 212, 243, 273, 304, 334, 365>>

\* The month of a day, counted from 0.
MesDe(d) == Cardinality({m \in DOMAIN FimDosMeses : FimDosMeses[m] <= d})

\* The period of a timestamp: 'D' day, 'M' month, 'Q' quarter.
PeriodoDe(t, periodo) ==
    IF periodo = "D" THEN t.dia
    ELSE IF periodo = "M" THEN MesDe(t.dia)
    ELSE MesDe(t.dia) \div 3

ComData(v) == SelectSeq(v, LAMBDA r : ~IsNaT(r.Data))

\* One bin of resample(periodo).agg(...).round(2).fillna(0): an empty bin sums
\* to 0 and has mean NaN, which fillna turns into 0.
LinhaTemporal(g, k) ==
    LET valor == Coluna(g, "Valor_Final")
    IN  [chave |-> k,
         Receita_Total |-> FillNa0(Round2(Sum(valor))),
         Ticket_Medio |-> FillNa0(Round2Frac(Mean(valor))),
         Num_Vendas |-> Count(valor),
         Total_Produtos |-> Sum(Coluna(g, "Quantidade"))]

\* resample bins every period from the first to the last timestamp, in order;
\* rows without a timestamp fall in no bin.
AnaliseTemporal(v, periodo) ==
    LET df_vendas == ComData(Vendas(v))
        P == {PeriodoDe(df_vendas[i].Data, periodo) : i \in 1..Len(df_vendas)}
        lo == CHOOSE x \in P : \A y \in P : x <= y
        hi == CHOOSE x \in P : \A y \in P : x >= y
    IN  IF Len(df_vendas) = 0 THEN <<>>
        ELSE [i \in 1..(hi - lo + 1) |->
                LinhaTemporal(SelectSeq(df_vendas,
                                  LAMBDA r : PeriodoDe(r.Data, periodo) = lo + i - 1),
                              lo + i - 1)]

analise_por_categoria ==
    /\ \E t \in AnaliseCategoria(df) :
            ret' = [op |-> "analise_por_categoria", val |-> t]
    /\ UNCHANGED <<entrada, df, df_original>>

analise_por_regiao ==
    /\ \E t \in AnaliseRegiao(df) :
            ret' = [op |-> "analise_por_regiao", val |-> t]
    /\ UNCHANGED <<entrada, df, df_original>>

analise_temporal(periodo) ==
    /\ ret' = [op |-> "analise_temporal", periodo |-> periodo,
               val |-> AnaliseTemporal(df, periodo)]
    /\ UNCHANGED <<entrada, df, df_original>>

top_vendedores(n) ==
    /\ \E t \in TopVendedores(df, n) :
            ret' = [op |-> "top_vendedores", n |-> n, val |-> t]
    /\ UNCHANGED <<entrada, df, df_original>>

analise_metodo_pagamento ==
    /\ \E t \in AnaliseMetodoPagamento(df) :
            ret' = [op |-> "analise_metodo_pagamento", val |-> t]
    /\ UNCHANGED <<entrada, df, df_original>>

(***************************************************************************)
(* tendencias                                                               *)
(***************************************************************************)
Num(x) == [cls |-> "num", v |-> x]
Inf == [cls |-> "inf", v |-> 0]
NaNFloat == [cls |-> "nan", v |-> 0]

\* (ultimo - penultimo) / penultimo * 100 on floats: a zero divisor gives inf
\* or nan, not an exception.  The label is chosen on the unrounded value; the
\* value returned is round(crescimento, 2), here in thousandths of a percent.
Crescimento(ultimo, penultimo) ==
    IF penultimo = 0 THEN (IF ultimo > 0 THEN Inf ELSE NaNFloat)
    ELSE IF ultimo >= penultimo
         THEN Num(10 * DivRound(ultimo - penultimo, penultimo, 4))
         ELSE Num(0 - 10 * DivRound(penultimo - ultimo, penultimo, 4))

\* Tendencia with the bands closed at their upper edge (>= for >).
TendenciaInclusiva(ultimo, penultimo) ==
    IF penultimo = 0 THEN (IF ultimo > 0 THEN "Crescimento Forte" ELSE "Declínio")
    ELSE IF (ultimo - penultimo) * 100 >= 5 * penultimo THEN "Crescimento Forte"
    ELSE IF ultimo - penultimo >= 0 THEN "Crescimento Moderado"
    ELSE IF (ultimo - penultimo) * 100 >= 0 - 5 * penultimo THEN "Estável"
    ELSE "Declínio"

Tendencia(ultimo, penultimo) ==
    IF penultimo = 0 THEN (IF ultimo > 0 THEN "Crescimento Forte" ELSE "Declínio")
    ELSE IF (ultimo - penultimo) * 100 > 5 * penultimo THEN "Crescimento Forte"
    ELSE IF ultimo - penultimo > 0 THEN "Crescimento Moderado"
    ELSE IF (ultimo - penultimo) * 100 > 0 - 5 * penultimo THEN "Estável"
    ELSE "Declínio"

\* Tendencias without the early return for no completed sale.
TendenciasSemVazio(v) ==
    LET df_vendas == Vendas(v)
        comData == ComData(df_vendas)
        M == {MesDe(comData[i].Data.dia) : i \in 1..Len(comData)}
        SomaMes(m) == Sum(Coluna(SelectSeq(comData, LAMBDA r : MesDe(r.Data.dia) = m),
                                 "Valor_Final"))
        u == CHOOSE x \in M : \A y \in M : x >= y
        pn == CHOOSE x \in M \ {u} : \A y \in M \ {u} : x >= y
    IN  IF Cardinality(M) < 2
        THEN [crescimento_mensal |-> Num(0), tendencia |-> "Insuficiente"]
        ELSE [crescimento_mensal |-> Crescimento(SomaMes(u), SomaMes(pn)),
              tendencia |-> Tendencia(SomaMes(u), SomaMes(pn)),
              ultimo_mes |-> SomaMes(u),
              penultimo_mes |-> SomaMes(pn)]

\* df_mensal: the months present (rows without a timestamp have no month) and
\* the sum of Valor_Final of each.
Tendencias(v) ==
    LET df_vendas == Vendas(v)
        comData == ComData(df_vendas)
        M == {MesDe(comData[i].Data.dia) : i \in 1..Len(comData)}
        SomaMes(m) == Sum(Coluna(SelectSeq(comData, LAMBDA r : MesDe(r.Data.dia) = m),
                                 "Valor_Final"))
        u == CHOOSE x \in M : \A y \in M : x >= y
        pn == CHOOSE x \in M \ {u} : \A y \in M \ {u} : x >= y
    IN  IF Len(df_vendas) = 0 THEN <<>>
        ELSE IF Cardinality(M) < 2
             THEN [crescimento_mensal |-> Num(0), tendencia |-> "Insuficiente"]
        ELSE [crescimento_mensal |-> Crescimento(SomaMes(u), SomaMes(pn)),
              tendencia |-> Tendencia(SomaMes(u), SomaMes(pn)),
              ultimo_mes |-> SomaMes(u),
              penultimo_mes |-> SomaMes(pn)]

tendencias ==
    /\ ret' = [op |-> "tendencias", val |-> Tendencias(df)]
    /\ UNCHANGED <<entrada, df, df_original>>

(***************************************************************************)
(* Inputs                                                                   *)
(***************************************************************************)
Ts(d, t) == [dia |-> d, tod |-> t]

\* Rows that differ in what the filters and limpar_dados read: timestamps at the
\* start of a day, at 23:59:59, in the last millisecond of a day and at the
\* next midnight; every status; missing values in the critical columns.
RegistrosFiltro ==
    {Linha(1, Ts(0, 0), Concluida, "Eletrônicos", "Norte", "Manaus",
           10000, 1, 0, "PIX", "Vendedor 1"),
     Linha(2, Ts(0, T235959), Pendente, "Roupas", "Sul", "Curitiba",
           20000, 2, 10, "Boleto", "Vendedor 2"),
     Linha(3, Ts(0, UltimoTick), Cancelada, "Eletrônicos", "Sul", "Curitiba",
           15000, 1, 5, "PIX", "Vendedor 1"),
     Linha(4, Ts(1, 0), Concluida, "Roupas", "Norte", "Belém",
           30000, 3, 0, "Boleto", "Vendedor 2"),
     Linha(5, Ts(1, MeioDia), NaNStr, "Eletrônicos", "Sul", "Curitiba",
           NaN, 1, 0, "PIX", "Vendedor 1"),
     Linha(6, NaT, Pendente, "Roupas", "Norte", "Manaus",
           5000, 1, 0, "PIX", "Vendedor 2")}

\* Rows that differ in what the metrics and the tables read: amounts with and
\* without a third decimal, equal amounts, three statuses, three months, a
\* completed sale without category.
RegistrosMetrica ==
    {Linha(1, Ts(0, MeioDia), Concluida, "Eletrônicos", "Norte", "Manaus",
           10000, 1, 0, "PIX", "Vendedor 1"),
     Linha(2, Ts(1, 0), Concluida, "Roupas", "Sul", "Curitiba",
           10004, 2, 5, "Boleto", "Vendedor 2"),
     Linha(3, Ts(1, MeioDia), Cancelada, "Roupas", "Norte", "Belém",
           7000, 1, 10, "PIX", "Vendedor 1"),
     Linha(4, Ts(31, 0), Pendente, "Eletrônicos", "Sul", "Curitiba",
           8000, 1, 0, "Boleto", "Vendedor 2"),
     Linha(5, Ts(59, 0), Concluida, "Eletrônicos", "Sul", "Porto Alegre",
           20000, 3, 30, "PIX", "Vendedor 3"),
     Linha(6, Ts(3, 0), Concluida, "Livros", "Norte", "Manaus",
           10000, 1, 15, "Cartão Crédito", "Vendedor 2"),
     Linha(7, Ts(31, MeioDia), Concluida, NaNStr, "Sul", "Curitiba",
           3000, 1, 0, "PIX", "Vendedor 3")}

Limites ==
    {SemLimite, LimiteDate(0), LimiteDate(1), LimiteDatetime(0, MeioDia),
     LimiteInvalido}

ArgsStatus(e) ==
    {ArgNone, ArgList({}), ArgList({Concluida}), ArgList({Cancelada, Pendente}),
     ArgList(Unique(e, "Status")), ArgStr(Pendente)}

ArgsCategoria(e) ==
    {ArgNone, ArgList({}), ArgList({"Eletrônicos"}),
     ArgList(Unique(e, "Categoria")), ArgStr("Roupas")}

ArgsRegiao(e) ==
    {ArgNone, ArgList({}), ArgList({"Norte"}),
     ArgList(Unique(e, "Regiao")), ArgStr("Sul")}

Periodos == {"D", "M", "Q"}
Ns == {0, 1, 2, 10}

(***************************************************************************)
(* data_generator.py: gerar_dados_vendas                                    *)
(***************************************************************************)
\* timedelta(days=365): the days before now at which the dates start.
DiasJanela == 365
\* gerar_dados_vendas(n_registros=2000) of carregar_dados and of __main__.
NRegistrosBootstrap == 2000
\* The default of the parameter seed.
SeedPadrao == 42

categorias ==
    <<"Eletrônicos", "Roupas", "Casa e Jardim", "Esportes",
      "Livros", "Brinquedos", "Alimentos", "Beleza">>

regioes == <<"Norte", "Nordeste", "Centro-Oeste", "Sudeste", "Sul">>

cidades ==
    "Norte" :> <<"Manaus", "Belém", "Porto Velho">>
    @@ "Nordeste" :> <<"Salvador", "Recife", "Fortaleza", "Natal">>
    @@ "Centro-Oeste" :> <<"Brasília", "Goiânia", "Campo Grande">>
    @@ "Sudeste" :> <<"São Paulo", "Rio de Janeiro", "Belo Horizonte", "Vitória">>
    @@ "Sul" :> <<"Curitiba", "Porto Alegre", "Florianópolis">>

\* (preco_min, preco_max) of each category.
precos_base ==
    "Eletrônicos" :> <<500, 5000>>
    @@ "Roupas" :> <<50, 500>>
    @@ "Casa e Jardim" :> <<30, 800>>
    @@ "Esportes" :> <<100, 1500>>
    @@ "Livros" :> <<20, 150>>
    @@ "Brinquedos" :> <<25, 400>>
    @@ "Alimentos" :> <<10, 200>>
    @@ "Beleza" :> <<15, 300>>

\* The values of each weighted choice and its p, in percent, accumulated.
descontos == <<0, 5, 10, 15, 20, 25, 30>>
descontos_p == <<30, 50, 65, 80, 90, 95, 100>>
status_venda == <<Concluida, Pendente, Cancelada>>
status_p == <<85, 95, 100>>
metodos == <<"Cartão Crédito", "Cartão Débito", "PIX", "Boleto">>
metodos_p == <<40, 60, 90, 100>>

\* A random state: the seed it was started from and the numbers drawn since.
Semear(seed) == [seed |-> seed, pos |-> 0]

\* The k-th number, 0 <= . < 65536, that a state will give: a fixed function
\* of the seed and of the position, as the Mersenne Twister's is (a linear
\* congruence stands in for it).
Sorteio(st, k) == (((st.seed * 31 + st.pos + k) * 25173) + 13849) % 65536

\* np.random.choice(lista): each value alike.
Escolha(lista, u) == lista[1 + (u % Len(lista))]

\* np.random.choice(lista, p=...): the first value whose accumulated p is
\* above the number drawn.
EscolhaPonderada(lista, acum, u) ==
    lista[CHOOSE i \in 1..Len(lista) :
            /\ u % 100 < acum[i]
            /\ \A j \in 1..(i - 1) : u % 100 >= acum[j]]

\* np.random.randint(lo, hi): lo <= . < hi.
RandInt(lo, hi, u) == lo + (u % (hi - lo))

\* round(np.random.uniform(lo, hi), 2), in hundredths: lo <= . <= hi.
UniformeCentavos(lo, hi, u) == lo * 100 + ((u * 7) % ((hi - lo) * 100 + 1))

\* f'{n:05d}': the decimal digits of n, zero-padded to 5 (more when n needs more).
RECURSIVE Digitos(_)
Digitos(n) == IF n < 10 THEN <<n>> ELSE Append(Digitos(n \div 10), n % 10)

Pad5(n) ==
    LET d == Digitos(n)
    IN  [i \in 1..(5 - Len(d)) |-> 0] \o d

\* The derived columns: Mês (a month of a year), Ano, Trimestre, Dia_Semana,
\* Mês_Nome; years are taken as common years of 365 days.
Ano(t) == t.dia \div 365
Mes(t) == MesDe(t.dia % 365)

\* t + timedelta(days=d), d of either sign.
MaisDias(t, d) == [dia |-> t.dia + d, tod |-> t.tod]

\* t1 < t2, the order sorted() puts datetimes in.
TsLt(t1, t2) == t1.dia < t2.dia \/ (t1.dia = t2.dia /\ t1.tod < t2.tod)

\* datas = [data_inicio + timedelta(days=x) for x in range(n_registros)]
Datas(n, data_inicio) == [x \in 1..n |-> MaisDias(data_inicio, x - 1)]

\* random.sample(datas, n_registros): all the n dates, without repetition, in
\* an order that the state of random fixes.
Amostra(datas, py) ==
    [i \in 1..Len(datas) |->
        datas[1 + (((i - 1) * 7919 + Sorteio(py, 0)) % Len(datas))]]

\* The i-th record (i from 1), from the numbers np gives from 10 * (i - 1) on,
\* in the order the code draws them.  Money is in thousandths.
Registro(i, data, np) ==
    LET k == 10 * (i - 1)
        categoria == Escolha(categorias, Sorteio(np, k))
        regiao == Escolha(regioes, Sorteio(np, k + 1))
        cidade == Escolha(cidades[regiao], Sorteio(np, k + 2))
        valor == UniformeCentavos(precos_base[categoria][1],
                                  precos_base[categoria][2], Sorteio(np, k + 3))
        quantidade == RandInt(1, 10, Sorteio(np, k + 4))
        total == valor * quantidade
        desconto == EscolhaPonderada(descontos, descontos_p, Sorteio(np, k + 5))
        valor_final == DivRound(total * (100 - desconto), 100, 0)
    IN  [ID |-> <<"V">> \o Pad5(i),
         Data |-> data,
         Categoria |-> categoria,
         Produto |-> <<"Produto", categoria, i>>,
         Regiao |-> regiao,
         Cidade |-> cidade,
         Valor_Unitario |-> 10 * valor,
         Quantidade |-> quantidade,
         Valor_Total |-> 10 * total,
         Desconto |-> desconto,
         Valor_Final |-> 10 * valor_final,
         Status |-> EscolhaPonderada(status_venda, status_p, Sorteio(np, k + 6)),
         Metodo_Pagamento |-> EscolhaPonderada(metodos, metodos_p, Sorteio(np, k + 7)),
         Vendedor |-> <<"Vendedor", RandInt(1, 21, Sorteio(np, k + 8))>>,
         Cliente_ID |-> <<"C", RandInt(1000, 9999, Sorteio(np, k + 9))>>,
         Mes |-> <<Ano(data), Mes(data)>>,
         Ano |-> Ano(data),
         Trimestre |-> Mes(data) \div 3 + 1,
         Dia_Semana |-> data.dia % 7,
         Mes_Nome |-> Mes(data)]

\* dados: one record for each i in range(n_registros), with datas[i].
Dados(n, datas, np) == [i \in 1..n |-> Registro(i, datas[i], np)]

\* The value of a call that returned a DataFrame, and of one that raised.
Gerado(n, seed, quando, dados) ==
    [op |-> "gerar_dados_vendas", n |-> n, seed |-> seed, agora |-> quando,
     erro |-> "", val |-> dados]

Levantou(n, seed, quando, erro) ==
    [op |-> "gerar_dados_vendas", n |-> n, seed |-> seed, agora |-> quando,
     erro |-> erro, val |-> <<>>]

\* gerar_dados_vendas(n_registros, seed): both random states are seeded; the
\* dates are taken from now - 365 days on, sampled and sorted; the records draw
\* ten numbers each.  With no record the DataFrame has no column, and the first
\* derived column (df['Data']) raises KeyError.
gerar_dados_vendas(n_registros, seed) ==
    \E np \in {Semear(seed)}, py \in {Semear(seed)} :
    \E datas \in {Datas(n_registros, MaisDias(agora, 0 - DiasJanela))} :
    \E amostra \in {Amostra(datas, py)} :
    \E ordenadas \in {SortSeq(amostra, TsLt)} :
        /\ rng' = [np |-> [np EXCEPT !.pos = 10 * n_registros],
                   py |-> [py EXCEPT !.pos = n_registros]]
        /\ ret' = IF n_registros = 0
                  THEN Levantou(n_registros, seed, agora, "KeyError")
                  ELSE Gerado(n_registros, seed, agora,
                              Dados(n_registros, ordenadas, np))
        /\ UNCHANGED agora

\* carregar_dados when data/vendas.csv does not exist: the data are generated
\* with the default seed and saved.
carregar_dados ==
    /\ ~arquivo
    /\ gerar_dados_vendas(NRegistrosBootstrap, SeedPadrao)
    /\ arquivo' = TRUE

\* The clock and the random states before any call.
AgoraInicial == Ts(DiasJanela, UltimoTick - 1)
RngInicial == [np |-> Semear(0), py |-> Semear(0)]

GeradorParado ==
    /\ agora = AgoraInicial
    /\ rng = RngInicial
    /\ arquivo = FALSE

(***************************************************************************)
(* The processor's life: any method, any argument, in any order             *)
(***************************************************************************)
SemCadeia == [base |-> <<>>, fs |-> <<>>, feitos |-> {}]

\* "filtrado": a call has narrowed the view of the processor as constructed;
\* "reiniciado": reset_filtros has then restored it; "refiltrado": a call has
\* narrowed it again since.
FaseAposFiltro(f, novo) ==
    IF novo = entrada THEN f
    ELSE IF f \in {"novo", "filtrado"} THEN "filtrado"
    ELSE "refiltrado"

FaseAposReset(f) == IF f = "novo" THEN "novo" ELSE "reiniciado"

Estreitou(v) ==
    /\ fresco' = v
    /\ fase' = FaseAposFiltro(fase, df')
    /\ UNCHANGED <<cadeia, gen>>

Consulta == UNCHANGED <<fresco, fase, cadeia, gen>>

ChamarLimpar == limpar_dados /\ Estreitou(Limpar(fresco))

ChamarPeriodo ==
    \E i, f \in Limites :
        filtrar_por_periodo(i, f) /\ Estreitou(FiltroPeriodo(fresco, i, f).df)

ChamarStatus ==
    \E a \in ArgsStatus(entrada) :
        filtrar_por_status(a) /\ Estreitou(FiltroStatus(fresco, a))

ChamarCategoria ==
    \E a \in ArgsCategoria(entrada) :
        filtrar_por_categoria(a) /\ Estreitou(FiltroCategoria(fresco, a))

ChamarRegiao ==
    \E a \in ArgsRegiao(entrada) :
        filtrar_por_regiao(a) /\ Estreitou(FiltroRegiao(fresco, a))

\* After a reset the comparison starts again from a fresh DataProcessor(entrada).
ChamarReset ==
    /\ reset_filtros
    /\ fresco' = entrada
    /\ fase' = FaseAposReset(fase)
    /\ UNCHANGED <<cadeia, gen>>

ChamarGetDataframe == get_dataframe /\ Consulta
ChamarMetricas == calcular_metricas_vendas /\ Consulta
ChamarCategoriaTabela == analise_por_categoria /\ Consulta
ChamarRegiaoTabela == analise_por_regiao /\ Consulta
ChamarTemporal == \E p \in Periodos : analise_temporal(p) /\ Consulta
ChamarTopVendedores == \E n \in Ns : top_vendedores(n) /\ Consulta
ChamarMetodoPagamento == analise_metodo_pagamento /\ Consulta
ChamarTendencias == tendencias /\ Consulta

Next ==
    \/ ChamarLimpar
    \/ ChamarPeriodo
    \/ ChamarStatus
    \/ ChamarCategoria
    \/ ChamarRegiao
    \/ ChamarReset
    \/ ChamarGetDataframe
    \/ ChamarMetricas
    \/ ChamarCategoriaTabela
    \/ ChamarRegiaoTabela
    \/ ChamarTemporal
    \/ ChamarTopVendedores
    \/ ChamarMetodoPagamento
    \/ ChamarTendencias

InitCom(R) ==
    \E d \in SeqAte(R, MaxLen) :
        /\ Construir(d)
        /\ fresco = d
        /\ fase = "novo"
        /\ cadeia = SemCadeia
        /\ GeradorParado

\* A processor over rows that exercise the filters.
Init == InitCom(RegistrosFiltro)
Spec == Init /\ [][Next]_vars

\* A processor over rows that exercise the metrics and the tables.
InitMetricas == InitCom(RegistrosMetrica)
SpecMetricas == InitMetricas /\ [][Next]_vars

(***************************************************************************)
(* One dashboard interaction: a fresh processor and the four filters of a   *)
(* filter state, applied once each, in any order                            *)
(***************************************************************************)
EstadosFiltro ==
    [data_inicio : {SemLimite, LimiteDate(0), LimiteDate(1)},
     data_fim : {SemLimite, LimiteDate(0), LimiteDate(1)},
     status : {ArgList({}), ArgList({Concluida}), ArgList({Concluida, Pendente})},
     categoria : {ArgList({}), ArgList({"Eletrônicos"})},
     regiao : {ArgList({}), ArgList({"Norte"})}]

OsFiltros == {"periodo", "status", "categoria", "regiao"}

\* The order in which main applies the filters.
AplicarFiltros(v, fs) ==
    FiltroRegiao(
        FiltroCategoria(
            FiltroStatus(FiltroPeriodo(v, fs.data_inicio, fs.data_fim).df, fs.status),
            fs.categoria),
        fs.regiao)

Feito(f) ==
    /\ f \notin cadeia.feitos
    /\ cadeia' = [cadeia EXCEPT !.feitos = @ \cup {f}]
    /\ UNCHANGED <<fresco, fase, gen>>

PassoPeriodo ==
    filtrar_por_periodo(cadeia.fs.data_inicio, cadeia.fs.data_fim) /\ Feito("periodo")

PassoStatus == filtrar_por_status(cadeia.fs.status) /\ Feito("status")
PassoCategoria == filtrar_por_categoria(cadeia.fs.categoria) /\ Feito("categoria")
PassoRegiao == filtrar_por_regiao(cadeia.fs.regiao) /\ Feito("regiao")

\* The chain starts again from the view it started from.
Recomecar ==
    /\ cadeia.feitos # {}
    /\ reset_filtros
    /\ cadeia' = [cadeia EXCEPT !.feitos = {}]
    /\ UNCHANGED <<fresco, fase, gen>>

NextComuta ==
    \/ PassoPeriodo
    \/ PassoStatus
    \/ PassoCategoria
    \/ PassoRegiao
    \/ Recomecar

InitComuta ==
    \E d \in SeqAte(RegistrosFiltro, MaxLen), fs \in EstadosFiltro :
        /\ Construir(d)
        /\ fresco = d
        /\ fase = "novo"
        /\ cadeia = [base |-> d, fs |-> fs, feitos |-> {}]
        /\ GeradorParado

SpecComuta == InitComuta /\ [][NextComuta]_vars

(***************************************************************************)
(* The trend of a processor: tendencias on views of monthly sales           *)
(***************************************************************************)
\* Longest DataFrame of a processor whose trend is taken.
MaxLenTendencia == 3

\* Completed sales in January, February and March whose monthly sums give the
\* series 1000, 1200, 1100 and a growth of exactly 5, 0 and -5 percent, of
\* 0.004 percent (25.000 to 25.001) and from a month that sums to 0; a pending
\* sale; a completed sale without date.
RegistrosTendencia ==
    {Linha(1, Ts(0, 0), Concluida, "Eletrônicos", "Norte", "Manaus",
           1000, 1, 0, "PIX", "Vendedor 1"),
     Linha(2, Ts(31, 0), Concluida, "Eletrônicos", "Norte", "Manaus",
           1200, 1, 0, "PIX", "Vendedor 1"),
     Linha(3, Ts(59, 0), Concluida, "Eletrônicos", "Norte", "Manaus",
           1100, 1, 0, "PIX", "Vendedor 1"),
     Linha(4, Ts(32, 0), Concluida, "Roupas", "Sul", "Curitiba",
           1000, 1, 0, "Boleto", "Vendedor 2"),
     Linha(5, Ts(60, 0), Concluida, "Roupas", "Sul", "Curitiba",
           1050, 1, 0, "Boleto", "Vendedor 2"),
     Linha(6, Ts(61, MeioDia), Concluida, "Roupas", "Sul", "Curitiba",
           950, 1, 0, "Boleto", "Vendedor 2"),
     Linha(7, Ts(33, 0), Concluida, "Livros", "Norte", "Belém",
           25000, 1, 0, "PIX", "Vendedor 3"),
     Linha(8, Ts(62, 0), Concluida, "Livros", "Norte", "Belém",
           25001, 1, 0, "PIX", "Vendedor 3"),
     Linha(9, Ts(34, 0), Concluida, "Livros", "Sul", "Curitiba",
           0, 1, 0, "PIX", "Vendedor 3"),
     Linha(10, Ts(63, 0), Pendente, "Livros", "Sul", "Curitiba",
           5000, 1, 0, "PIX", "Vendedor 3"),
     Linha(11, NaT, Concluida, "Livros", "Sul", "Curitiba",
           700, 1, 0, "PIX", "Vendedor 3")}

\* The dashboard's calls that bear on the trend: the status filter, the reset
\* and tendencias itself.
NextTendencia ==
    \/ ChamarStatus
    \/ ChamarReset
    \/ ChamarTendencias

InitTendencia ==
    \E d \in SeqAte(RegistrosTendencia, MaxLenTendencia) :
        /\ Construir(d)
        /\ fresco = d
        /\ fase = "novo"
        /\ cadeia = SemCadeia
        /\ GeradorParado

SpecTendencia == InitTendencia /\ [][NextTendencia]_vars

(***************************************************************************)
(* The filters' outcomes: calls with bounds that are missing or unparseable *)
(***************************************************************************)
\* The bounds a caller can pass: None, '', a date, a string that is no date.
LimitesDeErro == {SemLimite, LimiteVazio, LimiteDate(0), LimiteInvalido}

ChamarPeriodoComErro ==
    \E i, f \in LimitesDeErro :
        filtrar_por_periodo(i, f) /\ Estreitou(FiltroPeriodo(fresco, i, f).df)

NextLimites ==
    \/ ChamarPeriodoComErro
    \/ ChamarStatus
    \/ ChamarCategoria
    \/ ChamarRegiao
    \/ ChamarReset

SpecLimites == Init /\ [][NextLimites]_vars

(***************************************************************************)
(* The generator's life: calls at different times, the global random state  *)
(* used by others in between                                                *)
(***************************************************************************)
\* Largest of the small numbers of records asked for.
MaxRegistros == 2
\* Ticks the clock advances.
MaxRelogio == 2

\* The numbers of records asked for: none, a few, as many as the days of the
\* window and one more.
Contagens == (0..MaxRegistros) \cup {DiasJanela, DiasJanela + 1}
Sementes == {7, SeedPadrao}

\* The random states as another user of numpy.random and random leaves them.
RngAlheio == [np |-> [seed |-> 1, pos |-> 1], py |-> [seed |-> 1, pos |-> 1]]

\* The next instant of the clock; the day changes after its last tick.
MaisTick(t) ==
    IF t.tod = UltimoTick THEN [dia |-> t.dia + 1, tod |-> 0]
    ELSE [dia |-> t.dia, tod |-> t.tod + 1]

\* The ticks since the clock's first instant.
Decorrido(t) ==
    IF t.dia = AgoraInicial.dia THEN t.tod - AgoraInicial.tod
    ELSE t.tod + TicksPorDia - AgoraInicial.tod

ProcessadorParado == UNCHANGED <<entrada, df, df_original, fresco, fase, cadeia>>

ChamarGerar ==
    \E n \in Contagens, seed \in Sementes :
        /\ gerar_dados_vendas(n, seed)
        /\ UNCHANGED arquivo
        /\ ProcessadorParado

\* main starts by loading the data: carregar_dados is the first call of a run.
Arrancar ==
    /\ ret.op = "inicio"
    /\ carregar_dados
    /\ ProcessadorParado

PassarTempo ==
    /\ Decorrido(agora) < MaxRelogio
    /\ agora' = MaisTick(agora)
    /\ UNCHANGED <<rng, arquivo, ret>>
    /\ ProcessadorParado

UsarRandom ==
    /\ rng # RngAlheio
    /\ rng' = RngAlheio
    /\ UNCHANGED <<agora, arquivo, ret>>
    /\ ProcessadorParado

NextGerador ==
    \/ ChamarGerar
    \/ Arrancar
    \/ PassarTempo
    \/ UsarRandom

\* No processor yet, no call made.
InitGerador ==
    /\ entrada = <<>>
    /\ df = <<>>
    /\ df_original = <<>>
    /\ ret = [op |-> "inicio", val |-> ""]
    /\ fresco = <<>>
    /\ fase = "novo"
    /\ cadeia = SemCadeia
    /\ GeradorParado

SpecGerador == InitGerador /\ [][NextGerador]_vars

(***************************************************************************)
(* Properties of the filter chain                                           *)
(***************************************************************************)
\* a is b with some rows removed, the others in b's order.
IsSubSeq(a, b) ==
    LET F[i \in 0..Len(b)] ==
            IF i = 0 THEN 0
            ELSE IF F[i - 1] < Len(a) /\ a[F[i - 1] + 1] = b[i]
                 THEN F[i - 1] + 1
                 ELSE F[i - 1]
    IN  F[Len(b)] = Len(a)

MetodosQueEstreitam ==
    {"limpar_dados", "filtrar_por_periodo", "filtrar_por_status",
     "filtrar_por_categoria", "filtrar_por_regiao"}

MetodosDeConsulta ==
    {"get_dataframe", "calcular_metricas_vendas", "analise_por_categoria",
     "analise_por_regiao", "analise_temporal", "top_vendedores",
     "analise_metodo_pagamento", "tendencias"}

\* C1: whatever methods have been called, df_original is the DataFrame the
\* processor was constructed with, row for row and in the same order.
C1_OriginalIntacto == df_original = entrada

\* A metric is computed on a view narrowed again after a reset.
C1_Witness ==
    /\ fase = "refiltrado"
    /\ ret.op \in MetodosDeConsulta
    /\ df # df_original

\* C2: reset_filtros leaves the original collection as the current view, and
\* from then on the view is the one a freshly constructed processor has after
\* the same calls.
C2_ResetRestaura ==
    /\ ret.op = "reset_filtros" => df = entrada
    /\ df = fresco

\* Filters have narrowed the view, a reset has restored it, filters narrow it again.
C2_Witness ==
    /\ fase = "refiltrado"
    /\ ret.op \in MetodosQueEstreitam
    /\ Len(df) < Len(entrada)

\* C3: once the four filters of a filter state have each been applied, in
\* whatever order, the view is the one main's order gives on the same start.
C3_FiltrosComutam ==
    cadeia.feitos = OsFiltros => df = AplicarFiltros(cadeia.base, cadeia.fs)

\* The four filters were applied in an order that does not end with the region
\* filter, and some but not all rows are left.
C3_Witness ==
    /\ cadeia.feitos = OsFiltros
    /\ ret.op = "filtrar_por_periodo"
    /\ Len(df) > 0
    /\ Len(df) < Len(cadeia.base)

ArgsVazios == {ArgNone, ArgList({}), ArgStr("")}

\* C4: on a non-empty view, a status, category or region filter called with
\* None, [] or '' leaves the view as it is, which is also what filtering by
\* all the values the field takes in the collection gives.
C4_SelecaoVaziaNaoFiltra ==
    [][Len(df) > 0 =>
        \A a \in ArgsVazios :
            /\ filtrar_por_status(a) =>
                 /\ df' = df
                 /\ df' = FiltroStatus(df, ArgList(Unique(df_original, "Status")))
            /\ filtrar_por_categoria(a) =>
                 /\ df' = df
                 /\ df' = FiltroCategoria(df, ArgList(Unique(df_original, "Categoria")))
            /\ filtrar_por_regiao(a) =>
                 /\ df' = df
                 /\ df' = FiltroRegiao(df, ArgList(Unique(df_original, "Regiao")))]_vars

\* A status filter has returned a view that still holds a row without status
\* beside a completed one: only an empty or a full selection keeps both.
C4_Witness ==
    /\ ret.op = "filtrar_por_status"
    /\ \E i \in 1..Len(df) : df[i].Status = NaNStr
    /\ \E i \in 1..Len(df) : df[i].Status = Concluida

\* The bounds a caller can pass that pd.to_datetime parses.
LimitesValidos == {b \in Limites : b.tipo # "invalido"}

\* The rows C5 says are kept: from date_start on, up to the end of date_end's day.
NoPeriodo(r, inicio, fim) ==
    /\ LimiteTruthy(inicio) => TsLe(ToDatetime(inicio), r.Data)
    /\ LimiteTruthy(fim) => (~IsNaT(r.Data) /\ r.Data.dia <= fim.dia)

\* C5: filtrar_por_periodo keeps exactly the rows whose timestamp is at or
\* after date_start and not after the last instant of date_end's calendar day;
\* a bound that is not given constrains nothing.
C5_PeriodoDiaInteiro ==
    [][\A i, f \in LimitesValidos :
         filtrar_por_periodo(i, f) =>
            df' = SelectSeq(df, LAMBDA r : NoPeriodo(r, i, f))]_vars

\* C6: the view is always the original with some rows removed, in the original's
\* order, and every call but reset_filtros returns the view it was called on
\* with some (or no) rows removed.
C6_SoEstreita ==
    [][/\ IsSubSeq(df', df_original')
       /\ ret'.op # "reset_filtros" => IsSubSeq(df', df)]_vars

\* After a reset, filters have removed some but not all rows.
C6_Witness ==
    /\ fase = "refiltrado"
    /\ Len(df) > 0
    /\ Len(df) < Len(df_original)

(***************************************************************************)
(* Properties of the metrics and of the tables                              *)
(***************************************************************************)
\* The rows of the view that are completed sales, by position.
Completas == {i \in 1..Len(df) : df[i].Status = Concluida}

\* The sum of a column over a set of positions of the view.
SomaEm(I, col) ==
    LET RECURSIVE S(_)
        S(J) == IF J = {} THEN 0
                ELSE LET i == CHOOSE x \in J : TRUE
                     IN  df[i][col] + S(J \ {i})
    IN  S(I)

Abs(x) == IF x < 0 THEN 0 - x ELSE x

\* C7: calcular_metricas_vendas reports as vendas_canceladas and
\* vendas_pendentes the numbers of cancelled and of pending rows of the whole
\* view, also when the view holds no completed sale.
C7_ContagensDaVista ==
    ret.op = "calcular_metricas_vendas" =>
        /\ ret.val.vendas_canceladas =
              Cardinality({i \in 1..Len(df) : df[i].Status = Cancelada})
        /\ ret.val.vendas_pendentes =
              Cardinality({i \in 1..Len(df) : df[i].Status = Pendente})

\* C8: without a completed sale in the view every revenue metric is 0; with
\* one, each is taken over the completed sales alone (count, sum, mean, median,
\* units, maximum, minimum, mean discount).
C8_MetricasDeReceita ==
    ret.op = "calcular_metricas_vendas" =>
        LET m == ret.val
            n == Cardinality(Completas)
        IN  IF Completas = {}
            THEN /\ m.total_vendas = 0
                 /\ m.receita_total = 0
                 /\ m.ticket_medio = Zero
                 /\ m.ticket_mediano = Zero
                 /\ m.total_produtos = 0
                 /\ m.receita_maxima = 0
                 /\ m.receita_minima = 0
                 /\ m.desconto_medio = Zero
            ELSE /\ m.total_vendas = n
                 /\ m.receita_total = SomaEm(Completas, "Valor_Final")
                 /\ m.ticket_medio.den > 0
                 /\ m.ticket_medio.num * n = m.receita_total * m.ticket_medio.den
                 /\ m.total_produtos = SomaEm(Completas, "Quantidade")
                 /\ \E i \in Completas : df[i].Valor_Final = m.receita_maxima
                 /\ \A i \in Completas : df[i].Valor_Final <= m.receita_maxima
                 /\ \E i \in Completas : df[i].Valor_Final = m.receita_minima
                 /\ \A i \in Completas : df[i].Valor_Final >= m.receita_minima
                 /\ m.desconto_medio.den > 0
                 /\ m.desconto_medio.num * n =
                       SomaEm(Completas, "Desconto") * m.desconto_medio.den
                 /\ m.ticket_mediano.den > 0
                 /\ \E i, j \in Completas :
                       2 * m.ticket_mediano.num =
                          (df[i].Valor_Final + df[j].Valor_Final) * m.ticket_mediano.den
                 /\ 2 * Cardinality({i \in Completas :
                          df[i].Valor_Final * m.ticket_mediano.den
                             <= m.ticket_mediano.num}) >= n
                 /\ 2 * Cardinality({i \in Completas :
                          df[i].Valor_Final * m.ticket_mediano.den
                             >= m.ticket_mediano.num}) >= n

\* The metrics of a view that has rows, none of them a completed sale.
C8_Witness ==
    /\ ret.op = "calcular_metricas_vendas"
    /\ Len(df) > 0
    /\ Completas = {}

SomaDasLinhas(t) == Sum(Coluna(t, "Receita_Total"))

\* C9 as claimed: the Receita_Total of the rows of analise_por_categoria add up
\* to receita_total of calcular_metricas_vendas on the same view.
C9_SomaIgualReceita ==
    ret.op = "analise_por_categoria" =>
        SomaDasLinhas(ret.val) = CalcularMetricas(df).receita_total

\* C9 as amended: there is one row per category of the completed sales, its
\* Receita_Total being the category's sum over the completed sales rounded to 2
\* decimals; so the rows add up to receita_total less the completed sales that
\* have no category, to within 0.005 per row, and exactly when no category sum
\* has a third decimal.
C9_SomaArredondada ==
    ret.op = "analise_por_categoria" =>
        LET t == ret.val
            SomaCat(k) ==
                SomaEm({i \in Completas : df[i].Categoria = t[k].chave}, "Valor_Final")
            total == CalcularMetricas(df).receita_total
            semCat == SomaEm({i \in Completas : df[i].Categoria = NaNStr}, "Valor_Final")
        IN  /\ \A k \in 1..Len(t) :
                 /\ t[k].Receita_Total % 10 = 0
                 /\ Abs(t[k].Receita_Total - SomaCat(k)) <= 5
            /\ {t[k].chave : k \in 1..Len(t)} =
                  {df[i].Categoria : i \in Completas} \ {NaNStr}
            /\ Abs(SomaDasLinhas(t) - (total - semCat)) <= 5 * Len(t)
            /\ (\A k \in 1..Len(t) : SomaCat(k) % 10 = 0) =>
                  SomaDasLinhas(t) = total - semCat

\* A category table whose rows do not add up to receita_total.
C9_Witness ==
    /\ ret.op = "analise_por_categoria"
    /\ Len(ret.val) > 0
    /\ SomaDasLinhas(ret.val) # CalcularMetricas(df).receita_total

Ordenada(t) ==
    \A i, j \in 1..Len(t) : i < j => t[i].Receita_Total >= t[j].Receita_Total

\* One row for each value the column takes among the completed sales.
UmaPorChave(t, col) ==
    /\ Len(t) = Cardinality({df[i][col] : i \in Completas} \ {NaNStr})
    /\ {t[k].chave : k \in 1..Len(t)} = {df[i][col] : i \in Completas} \ {NaNStr}

PeriodosCompletos(periodo) == {PeriodoDe(df[i].Data, periodo) : i \in Completas}

\* One row for each period from the first to the last completed sale, in
\* order, a period without sales being a row of zeros.
Cronologica(t, periodo) ==
    LET P == PeriodosCompletos(periodo)
        lo == CHOOSE x \in P : \A y \in P : x <= y
        hi == CHOOSE x \in P : \A y \in P : x >= y
    IN  IF P = {} THEN t = <<>>
        ELSE /\ Len(t) = hi - lo + 1
             /\ \A k \in 1..Len(t) :
                  /\ t[k].chave = lo + k - 1
                  /\ t[k].Num_Vendas =
                        Cardinality({i \in Completas :
                            PeriodoDe(df[i].Data, periodo) = t[k].chave})
                  /\ t[k].chave \notin P =>
                        /\ t[k].Receita_Total = 0
                        /\ t[k].Ticket_Medio = 0
                        /\ t[k].Num_Vendas = 0
                        /\ t[k].Total_Produtos = 0

\* C10: the category, region and payment-method tables have one row per key
\* that has a completed sale (none without completed sales) and, like the
\* seller table, are in order of non-increasing Receita_Total; the temporal
\* table has one row per period from the first to the last completed sale, in
\* chronological order, empty periods filled with zeros.
C10_TabelasOrdenadas ==
    /\ ret.op = "analise_por_categoria" =>
          UmaPorChave(ret.val, "Categoria") /\ Ordenada(ret.val)
    /\ ret.op = "analise_por_regiao" =>
          UmaPorChave(ret.val, "Regiao") /\ Ordenada(ret.val)
    /\ ret.op = "analise_metodo_pagamento" =>
          UmaPorChave(ret.val, "Metodo_Pagamento") /\ Ordenada(ret.val)
    /\ ret.op = "top_vendedores" =>
          /\ Ordenada(ret.val)
          /\ \A k \in 1..Len(ret.val) :
                ret.val[k].chave \in {df[i].Vendedor : i \in Completas}
          /\ \A j, k \in 1..Len(ret.val) :
                j # k => ret.val[j].chave # ret.val[k].chave
    /\ ret.op = "analise_temporal" => Cronologica(ret.val, ret.periodo)

\* A temporal table with a zero-filled period between two periods with sales.
C10_Witness ==
    /\ ret.op = "analise_temporal"
    /\ \E k \in 1..Len(ret.val) : ret.val[k].Num_Vendas = 0
    /\ ret.val[1].Num_Vendas > 0

(***************************************************************************)
(* Properties of the seller ranking                                         *)
(***************************************************************************)
\* The sellers that have a completed sale in the view.
VendedoresCompletos == {df[i].Vendedor : i \in Completas} \ {NaNStr}

\* A seller's revenue: the sum over the seller's completed sales, to 2 decimals.
ReceitaVendedor(k) ==
    Round2(SomaEm({i \in Completas : df[i].Vendedor = k}, "Valor_Final"))

\* Where a seller first appears among the completed sales of the view.
PrimeiraVenda(k) ==
    CHOOSE i \in Completas :
        /\ df[i].Vendedor = k
        /\ \A j \in Completas : df[j].Vendedor = k => i <= j

Menor(a, b) == IF a < b THEN a ELSE b

\* t is n rows, or all if there are fewer, of the per-seller aggregate of the
\* view, none of the sellers left out having more revenue than one in t.
OsMaiores(t, n) ==
    /\ Len(t) = Menor(n, Cardinality(VendedoresCompletos))
    /\ \A j \in 1..Len(t) :
          /\ t[j].chave \in VendedoresCompletos
          /\ t[j].Receita_Total = ReceitaVendedor(t[j].chave)
          /\ t[j].Num_Vendas =
                Cardinality({i \in Completas : df[i].Vendedor = t[j].chave})
    /\ \A i, j \in 1..Len(t) : i # j => t[i].chave # t[j].chave
    /\ \A k \in VendedoresCompletos \ {t[j].chave : j \in 1..Len(t)} :
          \A j \in 1..Len(t) : ReceitaVendedor(k) <= t[j].Receita_Total

\* Sellers of equal revenue come in the order of their first completed sale in
\* the view, in t and between t and the sellers left out.
EmpatesNaOrdemDaVista(t) ==
    /\ \A i, j \in 1..Len(t) :
          (i < j /\ t[i].Receita_Total = t[j].Receita_Total) =>
              PrimeiraVenda(t[i].chave) < PrimeiraVenda(t[j].chave)
    /\ \A k \in VendedoresCompletos \ {t[j].chave : j \in 1..Len(t)} :
          \A j \in 1..Len(t) :
              ReceitaVendedor(k) = t[j].Receita_Total =>
                  PrimeiraVenda(t[j].chave) < PrimeiraVenda(k)

CompletasComData == {i \in Completas : ~IsNaT(df[i].Data)}
MesesCompletos == {MesDe(df[i].Data.dia) : i \in CompletasComData}

SomaDoMes(m) ==
    SomaEm({i \in CompletasComData : MesDe(df[i].Data.dia) = m}, "Valor_Final")

UltimoMes == CHOOSE m \in MesesCompletos : \A x \in MesesCompletos : x <= m

PenultimoMes ==
    CHOOSE m \in MesesCompletos \ {UltimoMes} :
        \A x \in MesesCompletos \ {UltimoMes} : x <= m

\* tendencias has returned a growth computed from two months.
TemCrescimento ==
    /\ ret.op = "tendencias"
    /\ "penultimo_mes" \in DOMAIN ret.val

\* c, in thousandths of a percent, is (u - p) / p * 100 to 2 decimals: the
\* multiple of 0.01 within 0.005 of it.
CrescimentoDe(c, u, p) ==
    LET h == c \div 10
    IN  /\ c % 10 = 0
        /\ (2 * h - 1) * p <= 2 * (u - p) * 10000
        /\ 2 * (u - p) * 10000 <= (2 * h + 1) * p

\* The label of the bands for the growth (u - p) / p * 100, p > 0.
NaBanda(l, u, p) ==
    /\ l = "Crescimento Forte" <=> 20 * (u - p) > p
    /\ l = "Crescimento Moderado" <=> (u > p /\ 20 * (u - p) <= p)
    /\ l = "Estável" <=> (u <= p /\ 20 * (p - u) < p)
    /\ l = "Declínio" <=> 20 * (p - u) >= p

\* C12: when the completed sales of the view fall in two or more months,
\* tendencias takes the sums of Valor_Final of the two latest months, reports
\* growth = (last - previous) / previous * 100 to 2 decimals and labels it:
\* above 5 Crescimento Forte, above 0 up to 5 Crescimento Moderado, above -5
\* up to 0 Estável, -5 or less Declínio (the previous month's sum not being 0).
C12_CrescimentoEBandas ==
    (ret.op = "tendencias" /\ Cardinality(MesesCompletos) >= 2) =>
        /\ TemCrescimento
        /\ ret.val.ultimo_mes = SomaDoMes(UltimoMes)
        /\ ret.val.penultimo_mes = SomaDoMes(PenultimoMes)
        /\ ret.val.penultimo_mes > 0 =>
              /\ ret.val.crescimento_mensal.cls = "num"
              /\ CrescimentoDe(ret.val.crescimento_mensal.v,
                               ret.val.ultimo_mes, ret.val.penultimo_mes)
              /\ NaBanda(ret.val.tendencia,
                         ret.val.ultimo_mes, ret.val.penultimo_mes)

\* The series 1000, 1200, 1100: a growth of -8.33 and Declínio.
C12_Witness ==
    /\ TemCrescimento
    /\ Cardinality(MesesCompletos) = 3
    /\ ret.val.ultimo_mes = 1100
    /\ ret.val.penultimo_mes = 1200
    /\ ret.val.crescimento_mensal = Num(0 - 8330)
    /\ ret.val.tendencia = "Declínio"

\* C13: when the previous month's sum is 0, tendencias reports a number as
\* growth, not an infinite or a not-a-number value.
C13_DivisorZero ==
    (TemCrescimento /\ ret.val.penultimo_mes = 0) =>
        ret.val.crescimento_mensal.cls = "num"

\* C14: with no completed sale in the view tendencias returns the empty
\* result, and with completed sales in fewer than 2 months a growth of 0 and
\* the label Insuficiente.
C14_Degenerados ==
    ret.op = "tendencias" =>
        /\ Completas = {} => DOMAIN ret.val = {}
        /\ (Completas # {} /\ Cardinality(MesesCompletos) < 2) =>
              /\ DOMAIN ret.val = {"crescimento_mensal", "tendencia"}
              /\ ret.val.crescimento_mensal = Num(0)
              /\ ret.val.tendencia = "Insuficiente"
        /\ (DOMAIN ret.val = {} \/ ~TemCrescimento) =>
              Cardinality(MesesCompletos) < 2

\* The trend of a view with several completed sales, all of one month.
C14_Witness ==
    /\ ret.op = "tendencias"
    /\ Cardinality(Completas) >= 2
    /\ Cardinality(MesesCompletos) = 1
    /\ Len(df) < Len(df_original)

\* The bands, read on the growth as reported.
BandaDoValor(c) ==
    IF c.cls = "inf" THEN "Crescimento Forte"
    ELSE IF c.cls = "nan" THEN "nenhuma"
    ELSE IF c.v > 5000 THEN "Crescimento Forte"
    ELSE IF c.v > 0 THEN "Crescimento Moderado"
    ELSE IF c.v > 0 - 5000 THEN "Estável"
    ELSE "Declínio"

\* C19: the label tendencias returns is the band of the growth it reports.
C19_RotuloDoValorReportado ==
    TemCrescimento => ret.val.tendencia = BandaDoValor(ret.val.crescimento_mensal)

(***************************************************************************)
(* Properties of the filters' outcomes                                      *)
(***************************************************************************)
\* The bound is given and pd.to_datetime parses it / cannot parse it.
Restringe(b) == LimiteTruthy(b) /\ b.tipo # "invalido"
NaoParseia(b) == LimiteTruthy(b) /\ b.tipo = "invalido"

FiltrosDeConjunto ==
    {"filtrar_por_status", "filtrar_por_categoria", "filtrar_por_regiao"}

\* The rows at or after the start bound and up to the end bound plus a day less
\* a millisecond, for the bounds of the two that are to constrain.
EntreLimites(v, inicio, comInicio, fim, comFim) ==
    SelectSeq(v, LAMBDA r :
        /\ comInicio => TsLe(ToDatetime(inicio), r.Data)
        /\ comFim => TsLe(r.Data, FimDoDia(ToDatetime(fim))))

\* C18 as claimed: no filter call has an error outcome; each returns the
\* processor with its view, a bound that is missing or cannot be parsed
\* constraining nothing.
C18_SemErro ==
    [][/\ \A i, f \in LimitesDeErro :
            filtrar_por_periodo(i, f) =>
                /\ ret'.val = "self"
                /\ df' = EntreLimites(df, i, Restringe(i), f, Restringe(f))
       /\ ret'.op \in FiltrosDeConjunto => ret'.val = "self"]_vars

\* C18 as amended: the status, category and region filters have no error
\* outcome, and filtrar_por_periodo takes a missing bound (None
\* or '') as no constraint; but a bound that cannot be parsed makes it raise:
\* with the view untouched when it is the start bound, and already narrowed by
\* the start bound when it is the end bound.
C18_ErroSoDeLimite ==
    [][/\ \A i, f \in LimitesDeErro :
            filtrar_por_periodo(i, f) =>
                /\ ret'.val = IF NaoParseia(i) \/ NaoParseia(f)
                              THEN "ValueError" ELSE "self"
                /\ NaoParseia(i) => df' = df
                /\ ~NaoParseia(i) =>
                      df' = EntreLimites(df, i, LimiteTruthy(i), f, Restringe(f))
                /\ (~LimiteTruthy(i) /\ ~LimiteTruthy(f)) => df' = df
       /\ ret'.op \in FiltrosDeConjunto => ret'.val = "self"]_vars

\* filtrar_por_periodo has raised on its end bound after narrowing the view by
\* its start bound.
C18_Witness ==
    /\ ret = Raised("filtrar_por_periodo")
    /\ fase = "filtrado"
    /\ Len(df) > 0
    /\ Len(df) < Len(entrada)

(***************************************************************************)
(* Properties of the generator                                              *)
(***************************************************************************)
\* gerar_dados_vendas was the last call.
FoiGerar == ret.op = "gerar_dados_vendas"

\* t is in the 365 days that end at the instant of the call.
NaJanela(t, quando) ==
    /\ TsLe(MaisDias(quando, 0 - DiasJanela), t)
    /\ TsLe(t, quando)

VinteVendedores == {<<"Vendedor", k>> : k \in 1..20}

\* Valor_Final is Valor_Total * (1 - Desconto / 100) to the nearest hundredth
\* (amounts are in thousandths).
LiquidoDoBruto(r) ==
    /\ r.Valor_Final % 10 = 0
    /\ Abs(10 * r.Valor_Final - (r.Valor_Total \div 10) * (100 - r.Desconto)) <= 50

\* What C16 says of each record.
RegistroValido(r, quando) ==
    /\ NaJanela(r.Data, quando)
    /\ r.Quantidade \in 1..9
    /\ r.Desconto \in {0, 5, 10, 15, 20, 25, 30}
    /\ \E i \in 1..Len(regioes) :
          /\ r.Regiao = regioes[i]
          /\ \E j \in 1..Len(cidades[regioes[i]]) :
                r.Cidade = cidades[regioes[i]][j]
    /\ r.Vendedor \in VinteVendedores
    /\ LiquidoDoBruto(r)

\* What C16 says of the records together: as many as asked for, identifiers
\* all different, days all different and ascending.
ColecaoValida(g) ==
    /\ g.erro = ""
    /\ Len(g.val) = g.n
    /\ Cardinality({g.val[i].ID : i \in 1..Len(g.val)}) = g.n
    /\ \A i \in 1..(Len(g.val) - 1) : g.val[i].Data.dia < g.val[i + 1].Data.dia
    /\ \A i \in 1..Len(g.val) : RegistroValido(g.val[i], g.agora)

\* C15: gerar_dados_vendas fails with ConfigurationError, returning no
\* records, when asked for more records than the 365 days of the window, the
\* 2000 of the bootstrap included; it never returns a record dated outside the
\* 365 days that end at the instant of the call.
C15_ErroAcimaDaJanela ==
    FoiGerar =>
        /\ ret.n > DiasJanela =>
              (ret.erro = "ConfigurationError" /\ Len(ret.val) = 0)
        /\ \A i \in 1..Len(ret.val) : NaJanela(ret.val[i].Data, ret.agora)

\* C16: for every number of records up to 365 and every seed,
\* gerar_dados_vendas returns that many records, with different identifiers,
\* different days in ascending order within the 365 days before the call,
\* Quantidade in 1..9, Desconto in {0, 5, ..., 30}, a city of the record's
\* region, one of the 20 sellers, and Valor_Final = round(Valor_Total *
\* (1 - Desconto / 100), 2).
C16_ColecaoValida ==
    (FoiGerar /\ ret.n <= DiasJanela) => ColecaoValida(ret)

\* C17: a call of gerar_dados_vendas with the number of records and the seed
\* of the call before it returns the same records, field by field, Data and
\* the derived calendar fields included, whatever time has passed and
\* whatever use was made of the global random state in between.
C17_MesmaSeedMesmosDados ==
    [][(/\ FoiGerar
        /\ ret'.op = "gerar_dados_vendas"
        /\ ret'.n = ret.n
        /\ ret'.seed = ret.seed) =>
            (ret'.erro = ret.erro /\ ret'.val = ret.val)]_vars

====
